---- MODULE Spec2Model ----
(***************************************************************************)
(* Model of the LoRa AT-command driver (src/LoRa.py): the command engine,  *)
(* the notification demultiplexer, the frame reader and the receive        *)
(* parser, together with the UART and the radio module they talk to.       *)
(* Bytes and strings are sequences of one-character strings.               *)
(***************************************************************************)
EXTENDS Integers, Sequences, FiniteSets, TLC

\* ------------------------------------------------------------------ bounds
MaxCalls == 2
MaxNotifs == 2

\* ------------------------------------------------------- bytes and strings
CRLF == <<"\r", "\n">>
RCV_MARK == <<"+", "R", "C", "V", "=">>
ERR_MARK == <<"+", "E", "R", "R">>
EQ == <<"=">>
COMMA == <<",">>

DigitChars == <<"0", "1", "2", "3", "4", "5", "6", "7", "8", "9">>
Whitespace == {" ", "\t", "\n", "\r", "\f"}

\* str(n) for a natural number
RECURSIVE NatStr(_)
NatStr(n) == IF n < 10 THEN <<DigitChars[n + 1]>>
             ELSE NatStr(n \div 10) \o <<DigitChars[(n % 10) + 1]>>

\* str(n) for an integer, as the f-strings and the module's firmware format it
IntStr(n) == IF n < 0 THEN <<"-">> \o NatStr(0 - n) ELSE NatStr(n)

\* b.startswith(p)
startswith(b, p) == Len(b) >= Len(p) /\ \A k \in 1..Len(p) : b[k] = p[k]

\* first index at which sep occurs in b at or after i, 0 when it does not
RECURSIVE find(_, _, _)
find(b, sep, i) ==
    IF i + Len(sep) - 1 > Len(b) THEN 0
    ELSE IF \A k \in 1..Len(sep) : b[i + k - 1] = sep[k] THEN i
    ELSE find(b, sep, i + 1)

\* b.split(sep): the pieces between the occurrences of sep, left to right
RECURSIVE split(_, _)
split(b, sep) ==
    LET i == find(b, sep, 1) IN
    IF i = 0 THEN <<b>>
    ELSE <<SubSeq(b, 1, i - 1)>> \o split(SubSeq(b, i + Len(sep), Len(b)), sep)

\* s.strip(): leading and trailing whitespace removed
RECURSIVE lstrip(_)
lstrip(s) == IF s # <<>> /\ s[1] \in Whitespace THEN lstrip(Tail(s)) ELSE s

RECURSIVE rstrip(_)
rstrip(s) == IF s # <<>> /\ s[Len(s)] \in Whitespace
             THEN rstrip(SubSeq(s, 1, Len(s) - 1)) ELSE s

strip(s) == rstrip(lstrip(s))

DigitVal(c) == CHOOSE d \in 0..9 : DigitChars[d + 1] = c

IsDigit(c) == \E d \in 0..9 : DigitChars[d + 1] = c

RECURSIVE NatVal(_)
NatVal(s) == IF Len(s) = 1 THEN DigitVal(s[1])
             ELSE 10 * NatVal(SubSeq(s, 1, Len(s) - 1)) + DigitVal(s[Len(s)])

\* int(s): surrounding whitespace is skipped, one sign is accepted, the rest
\* must be decimal digits; anything else raises ValueError
IntBody(s) == LET t == strip(s) IN
              IF t # <<>> /\ t[1] \in {"-", "+"} THEN Tail(t) ELSE t

IntParses(s) == LET d == IntBody(s) IN
                d # <<>> /\ \A i \in 1..Len(d) : IsDigit(d[i])

IntVal(s) == LET t == strip(s) IN
             IF t[1] = "-" THEN 0 - NatVal(IntBody(s)) ELSE NatVal(IntBody(s))

\* ------------------------------------------------------------ result values
\* rs_result: a Result is Ok(value) or Err(error); an exception that no
\* handler catches leaves the call instead of a Result (Raise)
Ok(v) == [tag |-> "Ok", val |-> v]

Err(e) == [tag |-> "Err", val |-> e]

Raise(e) == [tag |-> "Raise", val |-> e]

\* Python's None
None == [tag |-> "None"]

is_ok(r) == r.tag = "Ok"

is_err(r) == r.tag = "Err"

\* r.propagate(): the failure handed on as it is
propagate(r) == r

\* Check.first_err: the first Err of a list of results, None when there is none
RECURSIVE first_err(_)
first_err(rs) == IF rs = <<>> THEN None
                 ELSE IF is_err(Head(rs)) THEN Head(rs)
                 ELSE first_err(Tail(rs))

\* ------------------------------------------------------------ error catalog
_errors ==
    (1 :> "There is not \"enter\" or 0x0D 0x0A in the end of the AT Command.") @@
    (2 :> "The head of AT command is not \"AT\" string.") @@
    (4 :> "Unknown command.") @@
    (5 :> "The data to be sent does not match the actual length.") @@
    (10 :> "TX is over times.") @@
    (12 :> "CRC error.") @@
    (13 :> "TX data exceeds 240 bytes.") @@
    (14 :> "Failed to write flash memory.") @@
    (15 :> "Unknown failure.") @@
    (17 :> "Last TX was not completed.") @@
    (18 :> "Preamble value is not allowed.") @@
    (19 :> "RX failed, Header error.") @@
    (20 :> "The time setting value of the \"Smart receiving power saving mode\" is not allowed.")

\* the CommandError of line 145; its message interpolates the command text,
\* the catalog description and the stripped reply line
CommandError(command, description, x) ==
    [exc |-> "CommandError", command |-> command,
     description |-> description, raw |-> x]

UARTTimeoutError(timeout) == [exc |-> "UARTTimeoutError", timeout |-> timeout]

EmptyRecvError(msg) == [exc |-> "EmptyRecvError", msg |-> msg]

\* an exception raised by the UART itself
TransportError == [exc |-> "OSError"]

RecvData(address, data, rssi, snr) ==
    [address |-> address, data |-> data, rssi |-> rssi, snr |-> snr]

RecvErr(exception, raw_data) == [exception |-> exception, raw_data |-> raw_data]

\* ------------------------------------------------------------ command engine
\* the loop of lines 137-142 over the parts of one read: +RCV= parts are
\* appended to the queue, every other non-empty part overwrites raw
\* the loop were it to stop at the first reply line, as the loop of recv does
RECURSIVE CommandScanBreaks(_, _, _)
CommandScanBreaks(parts, buf, raw) ==
    IF parts = <<>> THEN [buf |-> buf, raw |-> raw]
    ELSE IF startswith(Head(parts), RCV_MARK)
         THEN CommandScanBreaks(Tail(parts), Append(buf, Head(parts)), raw)
    ELSE IF Head(parts) # <<>>
         THEN [buf |-> buf, raw |-> Head(parts)]
    ELSE CommandScanBreaks(Tail(parts), buf, raw)

RECURSIVE CommandScan(_, _, _)
CommandScan(parts, buf, raw) ==
    IF parts = <<>> THEN [buf |-> buf, raw |-> raw]
    ELSE IF startswith(Head(parts), RCV_MARK)
         THEN CommandScan(Tail(parts), Append(buf, Head(parts)), raw)
    ELSE IF Head(parts) # <<>>
         THEN CommandScan(Tail(parts), buf, Head(parts))
    ELSE CommandScan(Tail(parts), buf, raw)

\* the lookup were it to use only the first digit of the code
CommandErrorOfFirstDigit(command, raw) ==
    LET x == strip(raw)
        f == split(x, EQ)
    IN  IF Len(f) < 2 THEN Raise([exc |-> "IndexError"])
        ELSE IF ~IntParses(f[2]) THEN Raise([exc |-> "ValueError"])
        ELSE IF IntVal(SubSeq(f[2], 1, 1)) \notin DOMAIN _errors
             THEN Raise([exc |-> "KeyError", key |-> IntVal(SubSeq(f[2], 1, 1))])
        ELSE Err(CommandError(command, _errors[IntVal(SubSeq(f[2], 1, 1))], x))

\* line 145: the error code is parsed out of the reply and looked up
CommandErrorOf(command, raw) ==
    LET x == strip(raw)
        f == split(x, EQ)
    IN  IF Len(f) < 2 THEN Raise([exc |-> "IndexError"])
        ELSE IF ~IntParses(f[2]) THEN Raise([exc |-> "ValueError"])
        ELSE IF IntVal(f[2]) \notin DOMAIN _errors
             THEN Raise([exc |-> "KeyError", key |-> IntVal(f[2])])
        ELSE Err(CommandError(command, _errors[IntVal(f[2])], x))

\* lines 144-147: what command returns for the raw left by the loop
Classify(command, ignore_errors, raw) ==
    IF ~ignore_errors /\ startswith(raw, ERR_MARK)
    THEN CommandErrorOf(command, raw)
    ELSE Ok(raw)

\* lines 134-152: command after read_raw returned r; the new queue and
\* the value returned (or the exception raised)
CommandFinish(command, ignore_errors, r, buf) ==
    IF is_ok(r)
    THEN LET s == CommandScan(split(r.val, CRLF), buf, r.val)
         IN  [buf |-> s.buf, ret |-> Classify(command, ignore_errors, s.raw)]
    ELSE [buf |-> buf, ret |-> propagate(r)]

\* ------------------------------------------------------------ receive parser
\* a loop that runs to the end of the read and reports the last line that
\* is no notification
RECURSIVE RecvScanKeepsLast(_, _)
RecvScanKeepsLast(parts, buf) ==
    IF parts = <<>> THEN [buf |-> buf, stop |-> FALSE, part |-> <<>>]
    ELSE LET s == RecvScanKeepsLast(Tail(parts), buf) IN
         IF startswith(Head(parts), RCV_MARK)
         THEN [s EXCEPT !.buf = <<Head(parts)>> \o s.buf]
         ELSE IF Head(parts) # <<>> /\ ~s.stop
              THEN [buf |-> s.buf, stop |-> TRUE, part |-> Head(parts)]
         ELSE s

\* a loop that appends every non-empty part, notification or not
RECURSIVE RecvScanQueuesAll(_, _)
RecvScanQueuesAll(parts, buf) ==
    IF parts = <<>> THEN [buf |-> buf, stop |-> FALSE, part |-> <<>>]
    ELSE IF Head(parts) # <<>>
         THEN RecvScanQueuesAll(Tail(parts), Append(buf, Head(parts)))
    ELSE RecvScanQueuesAll(Tail(parts), buf)

\* the loop of lines 240-245: +RCV= parts are appended until the first
\* other non-empty part, which ends the call
RECURSIVE RecvScan(_, _)
RecvScan(parts, buf) ==
    IF parts = <<>> THEN [buf |-> buf, stop |-> FALSE, part |-> <<>>]
    ELSE IF startswith(Head(parts), RCV_MARK)
         THEN RecvScan(Tail(parts), Append(buf, Head(parts)))
    ELSE IF Head(parts) # <<>>
         THEN [buf |-> buf, stop |-> TRUE, part |-> Head(parts)]
    ELSE RecvScan(Tail(parts), buf)

\* the payload taken from the field before it, the <len> field
ParseLenAsPayload(item) ==
    LET recv == split(SubSeq(item, 6, Len(item)), COMMA) IN
    IF ~IntParses(recv[1]) THEN Err(RecvErr([exc |-> "ValueError"], item))
    ELSE IF Len(recv) < 2 THEN Err(RecvErr([exc |-> "IndexError"], item))
    ELSE IF Len(recv) < 4 THEN Err(RecvErr([exc |-> "IndexError"], item))
    ELSE IF ~IntParses(recv[4]) THEN Err(RecvErr([exc |-> "ValueError"], item))
    ELSE IF Len(recv) < 5 THEN Err(RecvErr([exc |-> "IndexError"], item))
    ELSE IF ~IntParses(recv[5]) THEN Err(RecvErr([exc |-> "ValueError"], item))
    ELSE Ok(RecvData(IntVal(recv[1]), recv[2], IntVal(recv[4]), IntVal(recv[5])))

\* lines 255-261: the popped item parsed field by field, left to right
Parse(item) ==
    LET recv == split(SubSeq(item, 6, Len(item)), COMMA) IN
    IF ~IntParses(recv[1]) THEN Err(RecvErr([exc |-> "ValueError"], item))
    ELSE IF Len(recv) < 3 THEN Err(RecvErr([exc |-> "IndexError"], item))
    ELSE IF Len(recv) < 4 THEN Err(RecvErr([exc |-> "IndexError"], item))
    ELSE IF ~IntParses(recv[4]) THEN Err(RecvErr([exc |-> "ValueError"], item))
    ELSE IF Len(recv) < 5 THEN Err(RecvErr([exc |-> "IndexError"], item))
    ELSE IF ~IntParses(recv[5]) THEN Err(RecvErr([exc |-> "ValueError"], item))
    ELSE Ok(RecvData(IntVal(recv[1]), recv[3], IntVal(recv[4]), IntVal(recv[5])))

\* pop() in place of pop(0): the newest entry
PopLast(buf) == Len(buf)

\* line 253: which entry recv pops
PopIndex(buf) == 1

\* a recv that leaves an entry it could not parse in the queue
RecvPopKeepsMalformed(buf) ==
    IF buf = <<>>
    THEN [buf |-> buf, popped |-> <<>>,
          ret |-> Err(RecvErr(EmptyRecvError("recv buffer is empty"), <<>>))]
    ELSE LET i == PopIndex(buf)
             item == buf[i]
         IN  IF is_ok(Parse(item))
             THEN [buf |-> SubSeq(buf, 1, i - 1) \o SubSeq(buf, i + 1, Len(buf)),
                   popped |-> <<item>>, ret |-> Parse(item)]
             ELSE [buf |-> buf, popped |-> <<item>>, ret |-> Parse(item)]

\* lines 250-261: the empty-queue failure, else the pop and the parse
RecvPop(buf) ==
    IF buf = <<>>
    THEN [buf |-> buf, popped |-> <<>>,
          ret |-> Err(RecvErr(EmptyRecvError("recv buffer is empty"), <<>>))]
    ELSE LET i == PopIndex(buf)
             item == buf[i]
         IN  [buf |-> SubSeq(buf, 1, i - 1) \o SubSeq(buf, i + 1, Len(buf)),
              popped |-> <<item>>, ret |-> Parse(item)]

\* a recv that takes a failed read for a read without data and goes on to
\* the pop
RecvFinishPopsOnFailure(r, buf) ==
    IF is_ok(r)
    THEN LET s == RecvScan(split(r.val, CRLF), buf) IN
         IF s.stop
         THEN [buf |-> s.buf, popped |-> <<>>,
               ret |-> Err(RecvErr(EmptyRecvError("non +RCV data"), s.part))]
         ELSE RecvPop(s.buf)
    ELSE IF buf = <<>>
         THEN [buf |-> buf, popped |-> <<>>, ret |-> Err(RecvErr(r.val, <<>>))]
         ELSE RecvPop(buf)

\* lines 239-261: recv after read_raw returned r
RecvFinish(r, buf) ==
    IF is_ok(r)
    THEN LET s == RecvScan(split(r.val, CRLF), buf) IN
         IF s.stop
         THEN [buf |-> s.buf, popped |-> <<>>,
               ret |-> Err(RecvErr(EmptyRecvError("non +RCV data"), s.part))]
         ELSE RecvPop(s.buf)
    ELSE [buf |-> buf, popped |-> <<>>, ret |-> Err(RecvErr(r.val, <<>>))]

\* ------------------------------------------------- the radio module's lines
OK_LINE == <<"+", "O", "K">>

\* the module's error reply for a code
ErrLine(c) == ERR_MARK \o EQ \o IntStr(c)

\* codes the catalog does not list
UnknownCodes == {0, 3}

\* the replies the module gives in the long runs: success, or unknown command
Replies == {OK_LINE, ErrLine(4)}

\* every error reply: the codes of the catalog and one it does not list
ErrCodes == DOMAIN _errors \cup UnknownCodes

ErrReplies == {ErrLine(c) : c \in ErrCodes}

\* error replies that carry no decimal code: no "=", nothing after it, a
\* letter after it
BadErrReplies == {ERR_MARK, ERR_MARK \o EQ, ERR_MARK \o EQ \o <<"x">>}

\* the module's notification line +RCV=<addr>,<len>,<payload>,<rssi>,<snr>
Rcv(addr, payload, rssi, snr) ==
    RCV_MARK \o IntStr(addr) \o COMMA \o IntStr(Len(payload)) \o COMMA \o payload
             \o COMMA \o IntStr(rssi) \o COMMA \o IntStr(snr)

N1 == Rcv(5, <<"a", "b", "c">>, 0 - 40, 9)

N2 == Rcv(12, <<"h", "i">>, 0 - 7, 10)

Notifs == {N1, N2}

\* a notification line whose <len> field is written independently of the
\* payload
RcvLine(f) ==
    RCV_MARK \o IntStr(f.addr) \o COMMA \o IntStr(f.len) \o COMMA \o f.payload
             \o COMMA \o IntStr(f.rssi) \o COMMA \o IntStr(f.snr)

\* the logical fields of the well-formed notifications tried: zero and
\* largest address, empty payload, a payload of digits, a <len> that is not
\* the payload's length, negative and zero rssi, negative snr
RcvFields ==
    { [addr |-> 0, len |-> 0, payload |-> <<>>, rssi |-> 0 - 120, snr |-> 0 - 5],
      [addr |-> 65535, len |-> 7, payload |-> <<"a", "b", "c">>, rssi |-> 0,
       snr |-> 12],
      [addr |-> 5, len |-> 40, payload |-> <<"4", "2">>, rssi |-> 0 - 40,
       snr |-> 9],
      [addr |-> 5, len |-> 3, payload |-> <<"a", " ", "=">>, rssi |-> 0 - 40,
       snr |-> 0] }

WellFormed == {RcvLine(f) : f \in RcvFields}

\* +RCV= lines that do not parse: a non-numeric address, a non-numeric
\* rssi, an empty snr, three fields, four fields
BAD_ADDR == RCV_MARK \o <<"x", ",", "3", ",", "a", "b", "c", ",", "-", "4", "0", ",", "9">>

BAD_RSSI == RCV_MARK \o <<"5", ",", "3", ",", "a", "b", "c", ",", "-", "4", "o", ",", "9">>

BAD_SNR == RCV_MARK \o <<"5", ",", "3", ",", "a", "b", "c", ",", "-", "4", "0", ",">>

THREE_FIELDS == RCV_MARK \o <<"5", ",", "3", ",", "a", "b", "c">>

FOUR_FIELDS == RCV_MARK \o <<"5", ",", "3", ",", "a", "b", "c", ",", "-", "4", "0">>

Malformed == {BAD_ADDR, BAD_RSSI, BAD_SNR, THREE_FIELDS, FOUR_FIELDS}

\* ------------------------------------------------------------ command texts
AT == <<"A", "T">>

AT_FOO == <<"A", "T", "+", "F", "O", "O">>

CommandTexts == {AT_FOO}

\* the timeout arguments tried: 0 is no timeout (line 208)
Timeouts == {0, 2}

\* the arguments setup is called with (line 154 gives the defaults)
SetupArgs == {[network_id |-> 18, address |-> 0, spreading_factor |-> 9,
               bandwidth |-> 7, coding_rate |-> 1, programmed_preamble |-> 12]}

Frame(command, ignore_errors, timeout) ==
    [command |-> command, ignore_errors |-> ignore_errors, timeout |-> timeout]

\* lines 173-176: the four command calls of setup, in the order made
SetupCommands(a) ==
    << Frame(AT, TRUE, 0),
       Frame(<<"A", "T", "+", "P", "A", "R", "A", "M", "E", "T", "E", "R", "=">>
             \o IntStr(a.spreading_factor) \o COMMA \o IntStr(a.bandwidth) \o COMMA
             \o IntStr(a.coding_rate) \o COMMA \o IntStr(a.programmed_preamble),
             FALSE, 0),
       Frame(<<"A", "T", "+", "A", "D", "D", "R", "E", "S", "S", "=">>
             \o IntStr(a.address), FALSE, 0),
       Frame(<<"A", "T", "+", "N", "E", "T", "W", "O", "R", "K", "I", "D", "=">>
             \o IntStr(a.network_id), FALSE, 0) >>

\* ------------------------------------------------------------------- state
VARIABLES
    recv_buf,    \* self._recv_buf, the notification queue
    rx,          \* the bytes waiting in the UART's receive buffer
    writes,      \* the lines the running call has written to the UART
    pc,          \* "idle" between calls, "poll" inside read_raw's loop
    op,          \* the method running (or last run)
    frame,       \* the arguments of the command / recv call that is polling
    setup_args,  \* the arguments of the running setup call
    rets,        \* the rets list of setup
    elapsed,     \* utime.time() - start_time
    result,      \* what the last finished call returned
    pre_buf,     \* history: recv_buf when the last read_raw returned
    raw_read,    \* history: what the last read_raw returned
    popped,      \* history: the entry the last recv call popped, if any
    undelivered, \* history: the +RCV= lines read and not yet popped, in order
    owed,        \* module: commands written and not yet answered
    cur_reply,   \* history: the module's reply to the command last written
    calls,       \* number of calls made
    notifs       \* number of notifications the module emitted

vars == << recv_buf, rx, writes, pc, op, frame, setup_args, rets, elapsed, result,
           pre_buf, raw_read, popped, undelivered, owed, cur_reply,
           calls, notifs >>

Init ==
    /\ recv_buf = <<>>
    /\ rx = <<>>
    /\ writes = <<>>
    /\ pc = "idle"
    /\ op = "none"
    /\ frame = Frame(<<>>, FALSE, 0)
    /\ setup_args = None
    /\ rets = <<>>
    /\ elapsed = 0
    /\ result = None
    /\ pre_buf = <<>>
    /\ raw_read = None
    /\ popped = <<>>
    /\ undelivered = <<>>
    /\ owed = 0
    /\ cur_reply = None
    /\ calls = 0
    /\ notifs = 0

\* the +RCV= lines of one read, in the order they appear
RcvLines(raw) == SelectSeq(split(raw, CRLF), LAMBDA p : startswith(p, RCV_MARK))

\* -------------------------------------------------------- the radio module
\* the module answers the oldest unanswered command with one reply line
ModuleReply(r) ==
    /\ owed > 0
    /\ rx' = rx \o r \o CRLF
    /\ owed' = owed - 1
    /\ cur_reply' = IF owed = 1 THEN Ok(r) ELSE cur_reply
    /\ UNCHANGED << recv_buf, writes, pc, op, frame, setup_args, rets, elapsed,
                    result, pre_buf, raw_read, popped, undelivered, calls, notifs >>

\* the module reports an inbound packet, at any moment
ModuleNotify(n) ==
    /\ notifs < MaxNotifs
    /\ rx' = rx \o n \o CRLF
    /\ notifs' = notifs + 1
    /\ UNCHANGED << recv_buf, writes, pc, op, frame, setup_args, rets, elapsed,
                    result, pre_buf, raw_read, popped, undelivered, owed,
                    cur_reply, calls >>

\* a second passes while read_raw polls with a timeout
Tick ==
    /\ pc = "poll"
    /\ frame.timeout # 0
    /\ elapsed < frame.timeout
    /\ elapsed' = elapsed + 1
    /\ UNCHANGED << recv_buf, rx, writes, pc, op, frame, setup_args, rets, result,
                    pre_buf, raw_read, popped, undelivered, owed, cur_reply, calls, notifs >>

\* ---------------------------------------------------------------- read_raw
\* read_raw whose poll never gives up
ReadRawResultsNoTimeout ==
    (IF rx # <<>> THEN {Ok(rx)} ELSE {})
    \cup {Err(TransportError)}

\* lines 214-224: what read_raw can return in the current state
ReadRawResults ==
    (IF rx # <<>> THEN {Ok(rx)} ELSE {})
    \cup (IF rx = <<>> /\ frame.timeout # 0 /\ elapsed >= frame.timeout
          THEN {Err(UARTTimeoutError(frame.timeout))} ELSE {})
    \cup {Err(TransportError)}

\* the effect of read_raw returning r on the UART and on the history
ReadRaw(r) ==
    /\ rx' = IF is_ok(r) THEN <<>> ELSE rx
    /\ raw_read' = r
    /\ pre_buf' = recv_buf

\* history: the +RCV= lines read so far and not yet popped, once r is returned
Received(r) == IF is_ok(r) THEN undelivered \o RcvLines(r.val) ELSE undelivered

\* s without the first occurrence of each item of the list gone (at most one)
RECURSIVE Without(_, _)
Without(s, gone) ==
    IF gone = <<>> \/ s = <<>> THEN s
    ELSE IF Head(s) = Head(gone) THEN Tail(s)
    ELSE <<Head(s)>> \o Without(Tail(s), gone)

\* line 130 and line 214: the command line is written, the poll begins
Write(f) ==
    /\ writes' = Append(writes, f.command \o CRLF)
    /\ frame' = f
    /\ elapsed' = 0
    /\ owed' = owed + 1
    /\ cur_reply' = None
    /\ pc' = "poll"

\* a call begins: what is remembered of the previous call is dropped
Forget ==
    /\ result' = None
    /\ raw_read' = None
    /\ pre_buf' = <<>>
    /\ popped' = <<>>
    /\ rets' = <<>>

\* ----------------------------------------------------------------- command
Command(command, ignore_errors, timeout) ==
    /\ pc = "idle"
    /\ calls < MaxCalls
    /\ calls' = calls + 1
    /\ op' = "command"
    /\ writes' = <<command \o CRLF>>
    /\ frame' = Frame(command, ignore_errors, timeout)
    /\ elapsed' = 0
    /\ owed' = owed + 1
    /\ cur_reply' = None
    /\ pc' = "poll"
    /\ Forget
    /\ UNCHANGED << recv_buf, rx, setup_args, undelivered, notifs >>

CommandReturn ==
    /\ pc = "poll"
    /\ op = "command"
    /\ \E r \in ReadRawResults :
       \E f \in {CommandFinish(frame.command, frame.ignore_errors, r, recv_buf)} :
         /\ ReadRaw(r)
         /\ recv_buf' = f.buf
         /\ result' = f.ret
         /\ undelivered' = Received(r)
    /\ popped' = <<>>
    /\ pc' = "idle"
    /\ UNCHANGED << writes, op, frame, setup_args, rets, elapsed, owed,
                    cur_reply, calls, notifs >>

\* -------------------------------------------------------------------- recv
Recv(timeout) ==
    /\ pc = "idle"
    /\ calls < MaxCalls
    /\ calls' = calls + 1
    /\ op' = "recv"
    /\ writes' = <<>>
    /\ frame' = Frame(<<>>, FALSE, timeout)
    /\ elapsed' = 0
    /\ pc' = "poll"
    /\ Forget
    /\ UNCHANGED << recv_buf, rx, setup_args, undelivered, owed, cur_reply,
                    notifs >>

RecvReturn ==
    /\ pc = "poll"
    /\ op = "recv"
    /\ \E r \in ReadRawResults :
       \E f \in {RecvFinish(r, recv_buf)} :
         /\ ReadRaw(r)
         /\ recv_buf' = f.buf
         /\ popped' = f.popped
         /\ undelivered' = Without(Received(r), f.popped)
         /\ result' = f.ret
    /\ pc' = "idle"
    /\ UNCHANGED << writes, op, frame, setup_args, rets, elapsed, owed,
                    cur_reply, calls, notifs >>

\* ------------------------------------------------------------------- setup
\* lines 171-173: setup starts with the AT probe
Setup(a) ==
    /\ pc = "idle"
    /\ calls < MaxCalls
    /\ calls' = calls + 1
    /\ op' = "setup"
    /\ setup_args' = a
    /\ writes' = <<SetupCommands(a)[1].command \o CRLF>>
    /\ frame' = SetupCommands(a)[1]
    /\ elapsed' = 0
    /\ owed' = owed + 1
    /\ cur_reply' = None
    /\ pc' = "poll"
    /\ Forget
    /\ UNCHANGED << recv_buf, rx, undelivered, notifs >>

\* lines 173-181: whether setup goes on to its next command after the
\* command calls so far returned rs
SetupContinues(rs) == Len(rs) < 4

\* lines 178-181: what setup returns
SetupResult(rs) ==
    IF first_err(rs) # None THEN propagate(first_err(rs)) ELSE Ok(None)

\* one command call of setup returns; setup appends its result and either
\* issues the next command or returns; an exception raised by the command
\* call leaves setup
SetupStep ==
    /\ pc = "poll"
    /\ op = "setup"
    /\ \E r \in ReadRawResults :
       \E f \in {CommandFinish(frame.command, frame.ignore_errors, r, recv_buf)} :
         LET rs == Append(rets, f.ret) IN
         /\ ReadRaw(r)
         /\ recv_buf' = f.buf
         /\ undelivered' = Received(r)
         /\ IF f.ret.tag = "Raise"
            THEN /\ result' = f.ret
                 /\ pc' = "idle"
                 /\ UNCHANGED << rets, writes, frame, elapsed, owed, cur_reply >>
            ELSE /\ rets' = rs
                 /\ IF SetupContinues(rs)
                    THEN /\ Write(SetupCommands(setup_args)[Len(rs) + 1])
                         /\ UNCHANGED result
                    ELSE /\ result' = SetupResult(rs)
                         /\ pc' = "idle"
                         /\ UNCHANGED << writes, frame, elapsed, owed, cur_reply >>
    /\ popped' = <<>>
    /\ UNCHANGED << op, setup_args, calls, notifs >>

\* ------------------------------------------------------ send, reset, query
AT_RESET == <<"A", "T", "+", "R", "E", "S", "E", "T">>

\* line 201: the text of the send command
SendText(address, data) ==
    <<"A", "T", "+", "S", "E", "N", "D", "=">> \o IntStr(address) \o COMMA
        \o IntStr(Len(data)) \o COMMA \o data

\* line 266: the text of the query command
QueryText(name) == <<"A", "T", "+">> \o name \o <<"?">>

\* lines 191, 201, 266: operation o calls command with the default
\* ignore_errors and timeout (line 118)
Call(o, command) ==
    /\ pc = "idle"
    /\ calls < MaxCalls
    /\ calls' = calls + 1
    /\ op' = o
    /\ writes' = <<command \o CRLF>>
    /\ frame' = Frame(command, FALSE, 0)
    /\ elapsed' = 0
    /\ owed' = owed + 1
    /\ cur_reply' = None
    /\ pc' = "poll"
    /\ Forget
    /\ UNCHANGED << recv_buf, rx, setup_args, undelivered, notifs >>

Send(address, data) == Call("send", SendText(address, data))

Reset == Call("reset", AT_RESET)

Query(name) == Call("query", QueryText(name))

\* lines 191 and 201: send and reset return what their command call returns
PassReturn ==
    /\ pc = "poll"
    /\ op \in {"send", "reset"}
    /\ \E r \in ReadRawResults :
       \E f \in {CommandFinish(frame.command, frame.ignore_errors, r, recv_buf)} :
         /\ ReadRaw(r)
         /\ recv_buf' = f.buf
         /\ result' = f.ret
         /\ undelivered' = Received(r)
    /\ popped' = <<>>
    /\ pc' = "idle"
    /\ UNCHANGED << writes, op, frame, setup_args, rets, elapsed, owed,
                    cur_reply, calls, notifs >>

\* lines 276-282: what query makes of the value its command call returned
\* (an exception raised by the command call passes through)
QueryFinish(ret) ==
    IF ret.tag = "Ok"
    THEN LET f == split(strip(ret.val), EQ) IN
         IF Len(f) < 2 THEN Raise([exc |-> "IndexError"]) ELSE Ok(f[2])
    ELSE propagate(ret)

QueryReturn ==
    /\ pc = "poll"
    /\ op = "query"
    /\ \E r \in ReadRawResults :
       \E f \in {CommandFinish(frame.command, frame.ignore_errors, r, recv_buf)} :
         /\ ReadRaw(r)
         /\ recv_buf' = f.buf
         /\ result' = QueryFinish(f.ret)
         /\ undelivered' = Received(r)
    /\ popped' = <<>>
    /\ pc' = "idle"
    /\ UNCHANGED << writes, op, frame, setup_args, rets, elapsed, owed,
                    cur_reply, calls, notifs >>

\* the variable queried
ADDRESS == <<"A", "D", "D", "R", "E", "S", "S">>

QueryNames == {ADDRESS}

\* the module's answers to a query: the value, the value padded, no value,
\* a line without "=", an error
QueryReplies ==
    { <<"+">> \o ADDRESS \o EQ \o <<"5">>,
      <<"+">> \o ADDRESS \o EQ \o <<"1", "2", " ">>,
      <<"+">> \o ADDRESS \o EQ,
      OK_LINE,
      ErrLine(4) }

\* any sequence of command and recv calls, the module replying and
\* notifying as it pleases
Next ==
    \/ \E c \in CommandTexts, i \in BOOLEAN, t \in Timeouts : Command(c, i, t)
    \/ CommandReturn
    \/ \E t \in Timeouts : Recv(t)
    \/ RecvReturn
    \/ \E r \in Replies : ModuleReply(r)
    \/ \E n \in Notifs : ModuleNotify(n)
    \/ Tick

Spec == Init /\ [][Next]_vars

\* lines 237, 214-224: the poll of recv ends on its own, by data or by the
\* time budget, without the transport raising
RecvPollEnds ==
    /\ pc = "poll"
    /\ op = "recv"
    /\ \E r \in ReadRawResults : r.tag = "Ok" \/ r.val.exc = "UARTTimeoutError"
    /\ pc' = "idle"

\* the same calls on a driver whose clock advances (utime.time, line 218)
\* and whose poll loop keeps running (lines 216-219)
SpecFair == Spec /\ WF_vars(Tick) /\ WF_pc(RecvPollEnds)

\* the first call made on the driver is a command call
FirstCommand(command, ignore_errors, timeout) ==
    calls = 0 /\ Command(command, ignore_errors, timeout)

\* a single command call against every error reply of the module
NextCatalog ==
    \/ \E c \in CommandTexts, i \in BOOLEAN, t \in Timeouts : FirstCommand(c, i, t)
    \/ CommandReturn
    \/ \E r \in ErrReplies : ModuleReply(r)
    \/ \E n \in Notifs : ModuleNotify(n)
    \/ Tick

SpecCatalog == Init /\ [][NextCatalog]_vars

\* the first call made on the driver is a setup call
FirstSetup(a) == calls = 0 /\ Setup(a)

\* a single setup call against a module that may also reply with an unlisted
\* code
NextSetup ==
    \/ \E a \in SetupArgs : FirstSetup(a)
    \/ SetupStep
    \/ \E r \in Replies \cup {ErrLine(3)} : ModuleReply(r)
    \/ \E n \in {N1} : ModuleNotify(n)

SpecSetup == Init /\ [][NextSetup]_vars

\* recv calls against a module that reports well-formed packets of every
\* shape
NextParse ==
    \/ \E t \in Timeouts : Recv(t)
    \/ RecvReturn
    \/ \E n \in WellFormed : ModuleNotify(n)
    \/ Tick

SpecParse == Init /\ [][NextParse]_vars

\* the first call made on the driver is a query call
FirstQuery(name) == calls = 0 /\ Query(name)

\* a single query call against every kind of answer
NextQuery ==
    \/ \E n \in QueryNames : FirstQuery(n)
    \/ QueryReturn
    \/ \E r \in QueryReplies : ModuleReply(r)
    \/ \E n \in Notifs : ModuleNotify(n)

SpecQuery == Init /\ [][NextQuery]_vars

\* the payloads and addresses send is called with
SendArgs == {[address |-> 7, data |-> <<"h", "i">>]}

\* any sequence of command, recv, send, reset and query calls, after a setup
\* call or without one
NextAll ==
    \/ \E c \in CommandTexts, i \in BOOLEAN, t \in Timeouts : Command(c, i, t)
    \/ CommandReturn
    \/ \E t \in Timeouts : Recv(t)
    \/ RecvReturn
    \/ \E a \in SetupArgs : FirstSetup(a)
    \/ SetupStep
    \/ \E a \in SendArgs : Send(a.address, a.data)
    \/ Reset
    \/ PassReturn
    \/ \E n \in QueryNames : Query(n)
    \/ QueryReturn
    \/ \E r \in Replies : ModuleReply(r)
    \/ \E n \in {N1} : ModuleNotify(n)
    \/ Tick

SpecAll == Init /\ [][NextAll]_vars

\* recv calls against a module whose notification lines may be malformed
NextMalformed ==
    \/ \E t \in Timeouts : Recv(t)
    \/ RecvReturn
    \/ \E n \in Malformed \cup {N1} : ModuleNotify(n)
    \/ Tick

SpecMalformed == Init /\ [][NextMalformed]_vars

\* a single command call against error replies without a code
NextBadErr ==
    \/ \E c \in CommandTexts, i \in BOOLEAN, t \in Timeouts : FirstCommand(c, i, t)
    \/ CommandReturn
    \/ \E r \in BadErrReplies \cup {ErrLine(4)} : ModuleReply(r)
    \/ \E n \in Notifs : ModuleNotify(n)
    \/ Tick

SpecBadErr == Init /\ [][NextBadErr]_vars

\* ================================================================ properties
\* the non-empty lines of a read that are not notifications, in order
ReplyLines(raw) ==
    SelectSeq(split(raw, CRLF), LAMBDA p : p # <<>> /\ ~startswith(p, RCV_MARK))

\* the residue of a read: its last non-empty non-notification line, empty
\* bytes when it has none
Residue(raw) ==
    LET ls == ReplyLines(raw) IN IF ls = <<>> THEN <<>> ELSE ls[Len(ls)]

\* how often x occurs in the list s
Count(x, s) == Cardinality({i \in 1..Len(s) : s[i] = x})

\* a is b with some entries left out, the order kept
RECURSIVE IsSubseq(_, _)
IsSubseq(a, b) ==
    IF a = <<>> THEN TRUE
    ELSE IF b = <<>> THEN FALSE
    ELSE IF Head(a) = Head(b) THEN IsSubseq(Tail(a), Tail(b))
    ELSE IsSubseq(a, Tail(b))

\* the call of method o has returned
Returned(o) == pc = "idle" /\ op = o

\* the call that returned made a read that succeeded
ReadOk == raw_read.tag = "Ok"

\* recv failed because the read held a line that is no notification
UnexpectedData ==
    /\ result.tag = "Err"
    /\ result.val.exception.exc = "EmptyRecvError"
    /\ result.val.exception.msg = "non +RCV data"

\* C1: every +RCV= line that a read returned has been handed to a recv
\* caller or is still in the notification queue
C1_NoNotificationDropped ==
    \A i \in 1..Len(undelivered) :
        Count(undelivered[i], undelivered) <= Count(undelivered[i], recv_buf)

\* C2: a successful command call returns the reply the module produced for
\* that very command, and no recv call consumes a reply
C2_ReplyOfThisCommand ==
    /\ Returned("command") /\ is_ok(result) => cur_reply = Ok(result.val)
    /\ Returned("recv") => ~UnexpectedData

\* C3: once a command of setup has failed, no later command is written; a
\* failing AT+PARAMETER step leaves exactly two writes
C3_SetupShortCircuits ==
    op = "setup" =>
        \A i \in 1..Len(rets) : is_err(rets[i]) => Len(writes) <= i

\* C4: a recv call that finds an entry queued and gets no data from the
\* transport returns that entry parsed
C4_QueuedEntryDelivered ==
    /\ Returned("recv")
    /\ pre_buf # <<>>
    /\ raw_read.tag = "Err"
    /\ raw_read.val.exc = "UARTTimeoutError"
    => /\ is_ok(result)
       /\ popped = <<Head(pre_buf)>>

\* C5: a command whose read holds no non-empty non-notification line returns
\* success with empty bytes
C5_EmptyResidue ==
    Returned("command") /\ ReadOk /\ ReplyLines(raw_read.val) = <<>>
    => result = Ok(<<>>)

\* C6: after a command call whose read succeeded, the queue is the queue
\* before the call followed by the +RCV= lines of the read, in their order;
\* the read +RCV=5,3,abc,-40,9 CR LF +OK CR LF enqueues the notification
\* and returns +OK as success
C6_CommandEnqueuesInOrder ==
    Returned("command") /\ ReadOk
    => /\ recv_buf = pre_buf \o RcvLines(raw_read.val)
       /\ raw_read.val = N1 \o CRLF \o OK_LINE \o CRLF
          => result = Ok(OK_LINE) /\ recv_buf = Append(pre_buf, N1)

C6_Witness ==
    /\ Returned("command") /\ ReadOk
    /\ pre_buf = <<N1>>
    /\ RcvLines(raw_read.val) = <<N2>>
    /\ result.tag = "Err"
    /\ result.val.exc = "CommandError"

\* C7: with ignore_errors false, a residue +ERR=c with c in the catalog makes
\* command fail with a CommandError that carries the command text, the
\* catalog description of c and the line +ERR=c; for +ERR=4 the description
\* is "Unknown command."
C7_CatalogError ==
    Returned("command") /\ ReadOk /\ ~frame.ignore_errors
    => LET residue == Residue(raw_read.val) IN
       /\ \A c \in DOMAIN _errors :
            residue = ErrLine(c)
            => result = Err(CommandError(frame.command, _errors[c], ErrLine(c)))
       /\ residue = <<"+", "E", "R", "R", "=", "4">>
          => /\ result.tag = "Err"
             /\ result.val.description = "Unknown command."
             /\ result.val.raw = <<"+", "E", "R", "R", "=", "4">>

C7_Witness ==
    /\ Returned("command") /\ ReadOk /\ ~frame.ignore_errors
    /\ Residue(raw_read.val) = ErrLine(20)
    /\ result.tag = "Err"
    /\ result.val.exc = "CommandError"

\* C8: with ignore_errors false, a residue +ERR=<code> with a code the
\* catalog does not list makes command return an UnknownErrorCode failure
C8_UnknownCodeIsAFailureValue ==
    /\ Returned("command") /\ ReadOk /\ ~frame.ignore_errors
    /\ \E c \in UnknownCodes : Residue(raw_read.val) = ErrLine(c)
    => /\ result.tag = "Err"
       /\ result.val.exc = "UnknownErrorCode"

\* C9: with ignore_errors true, a command whose read succeeded returns
\* success carrying the residue, whatever it is
C9_IgnoreErrorsReturnsResidue ==
    Returned("command") /\ ReadOk /\ frame.ignore_errors
    => result = Ok(Residue(raw_read.val))

\* C10: the queue keeps the order in which the +RCV= lines were read, and a
\* recv call that pops removes exactly the oldest entry
C10_FifoDelivery ==
    /\ IsSubseq(recv_buf, undelivered)
    /\ Returned("recv") /\ popped # <<>>
       => /\ popped = <<Head(pre_buf \o RcvLines(raw_read.val))>>
          /\ recv_buf = Tail(pre_buf \o RcvLines(raw_read.val))

C10_Witness ==
    /\ Returned("recv")
    /\ popped = <<N1>>
    /\ recv_buf = <<N2>>
    /\ pre_buf = <<N1>>

\* C11: a recv call with a timeout t > 0 returns; when no data arrived it
\* returns the failure wrapping the timeout error of t with empty raw bytes,
\* not before t seconds elapsed, without reading the transport and with the
\* queue as it was
C11_RecvTimesOut ==
    /\ [](Returned("recv") /\ raw_read.tag = "Err"
              /\ raw_read.val.exc = "UARTTimeoutError"
          => /\ result = Err(RecvErr(UARTTimeoutError(frame.timeout), <<>>))
             /\ frame.timeout > 0
             /\ elapsed >= frame.timeout
             /\ recv_buf = pre_buf
             /\ popped = <<>>)
    /\ [][RecvReturn /\ rx = <<>> /\ raw_read'.val = UARTTimeoutError(frame.timeout)
            => rx' = rx /\ recv_buf' = recv_buf]_vars
    /\ (pc = "poll" /\ op = "recv" /\ frame.timeout > 0) ~> Returned("recv")

C11_Witness ==
    /\ Returned("recv")
    /\ frame.timeout > 0
    /\ pre_buf = <<N1>>
    /\ recv_buf = <<N1>>
    /\ result = Err(RecvErr(UARTTimeoutError(frame.timeout), <<>>))

\* C12: the recv call that pops a well-formed notification line
\* +RCV=<addr>,<len>,<payload>,<rssi>,<snr> with a comma-free payload returns
\* success with exactly addr, payload, rssi and snr, negative values
\* included; written out again the four fields are the line's own text, and
\* <len> plays no part
C12_ParseRoundTrip ==
    \A f \in RcvFields :
        Returned("recv") /\ popped = <<RcvLine(f)>>
        => /\ result = Ok(RecvData(f.addr, f.payload, f.rssi, f.snr))
           /\ \A l \in {0, f.len, Len(f.payload)} :
                RcvLine([addr |-> result.val.address, len |-> l,
                         payload |-> result.val.data, rssi |-> result.val.rssi,
                         snr |-> result.val.snr])
                = RcvLine([f EXCEPT !.len = l])

C12_Witness ==
    /\ Returned("recv")
    /\ popped = <<RcvLine([addr |-> 65535, len |-> 7, payload |-> <<"a", "b", "c">>,
                           rssi |-> 0, snr |-> 12])>>
    /\ is_ok(result)
    /\ result.val.data = <<"a", "b", "c">>
    /\ result.val.address = 65535

\* C13: setup writes AT, AT+PARAMETER=, AT+ADDRESS=, AT+NETWORKID= in that
\* order; it returns success exactly when its four command calls returned
\* success and otherwise the failure of the earliest failing one; the AT
\* probe never fails by an error reply
C13_SetupResult ==
    /\ op = "setup"
       => /\ Len(writes) <= 4
          /\ \A i \in 1..Len(writes) :
                writes[i] = SetupCommands(setup_args)[i].command \o CRLF
          /\ Len(rets) >= 1 /\ is_err(rets[1]) => rets[1].val.exc # "CommandError"
    /\ Returned("setup")
       => /\ Len(rets) = 4
          /\ Len(writes) = 4
          /\ is_ok(result) <=> \A i \in 1..4 : is_ok(rets[i])
          /\ ~is_ok(result)
             => \E i \in 1..4 : /\ is_err(rets[i])
                                /\ result = rets[i]
                                /\ \A j \in 1..(i - 1) : is_ok(rets[j])

\* C14: when the command call of query succeeds with a reply that holds no
\* "=", the empty residue included, query returns a failure value
C14_QueryWithoutEquals ==
    /\ Returned("query") /\ ReadOk
    /\ ~startswith(Residue(raw_read.val), ERR_MARK)
    /\ find(Residue(raw_read.val), EQ, 1) = 0
    => result.tag = "Err"

\* C15: when read_raw fails, by timeout or by a transport error, command
\* returns that very failure and recv returns a failure whose cause is that
\* failure, with empty raw bytes; the queue is as it was, nothing is popped
\* and nothing is written or read again
C15_ReadFailurePropagates ==
    /\ Returned("command") /\ raw_read.tag = "Err"
       => /\ result = raw_read
          /\ recv_buf = pre_buf
          /\ Len(writes) = 1
    /\ Returned("recv") /\ raw_read.tag = "Err"
       => /\ result = Err(RecvErr(raw_read.val, <<>>))
          /\ recv_buf = pre_buf
          /\ popped = <<>>
          /\ writes = <<>>

C15_Witness ==
    /\ Returned("recv")
    /\ raw_read = Err(TransportError)
    /\ pre_buf = <<N1, N2>>
    /\ recv_buf = <<N1, N2>>
    /\ result.tag = "Err"

\* C16: when the read of a command call holds several non-empty lines that
\* are not notifications, the last of them alone decides: it is returned as
\* success unless it is an error reply and errors are not ignored; +ERR=4
\* followed by +OK is success with +OK, +OK followed by +ERR=4 is the
\* CommandError of code 4
C16_LastReplyWins ==
    Returned("command") /\ ReadOk /\ Len(ReplyLines(raw_read.val)) >= 2
    => LET ls == ReplyLines(raw_read.val)
           last == ls[Len(ls)]
       IN  /\ frame.ignore_errors \/ ~startswith(last, ERR_MARK)
              => result = Ok(last)
           /\ ~frame.ignore_errors /\ last = ErrLine(4)
              => result = Err(CommandError(frame.command, "Unknown command.",
                                           ErrLine(4)))
           /\ ~frame.ignore_errors /\ ls = <<ErrLine(4), OK_LINE>>
              => result = Ok(OK_LINE)
           /\ ~frame.ignore_errors /\ ls = <<OK_LINE, ErrLine(4)>>
              => result.tag = "Err" /\ result.val.exc = "CommandError"

C16_Witness ==
    /\ Returned("command") /\ ReadOk
    /\ ~frame.ignore_errors
    /\ ReplyLines(raw_read.val) = <<ErrLine(4), OK_LINE>>
    /\ result = Ok(OK_LINE)

\* C17: a recv call whose read succeeded and holds a non-empty line that
\* does not begin with +RCV= fails with the unexpected-data failure whose
\* raw bytes are the first such line; it pops nothing, whatever the queue
\* holds
C17_UnexpectedLineFailsRecv ==
    Returned("recv") /\ ReadOk /\ ReplyLines(raw_read.val) # <<>>
    => /\ result = Err(RecvErr(EmptyRecvError("non +RCV data"),
                               ReplyLines(raw_read.val)[1]))
       /\ popped = <<>>
       /\ Len(recv_buf) >= Len(pre_buf)
       /\ SubSeq(recv_buf, 1, Len(pre_buf)) = pre_buf

C17_Witness ==
    /\ Returned("recv") /\ ReadOk
    /\ Len(ReplyLines(raw_read.val)) >= 2
    /\ ReplyLines(raw_read.val)[1] # ReplyLines(raw_read.val)[2]
    /\ pre_buf # <<>>
    /\ UnexpectedData

\* C18: a recv call that pops an entry which does not parse returns the
\* failure that carries the parse exception and the entry's bytes; the entry
\* is gone from the queue, the entries behind it are kept in their order, and
\* whatever a recv call pops is the oldest entry, so the next pop delivers
\* the entry that followed
C18_MalformedIsConsumed ==
    Returned("recv") /\ popped # <<>>
    => LET before == pre_buf \o RcvLines(raw_read.val) IN
       /\ popped = <<Head(before)>>
       /\ recv_buf = Tail(before)
       /\ popped[1] \in Malformed
          => /\ result.tag = "Err"
             /\ result.val.raw_data = popped[1]
             /\ result.val.exception.exc \in {"ValueError", "IndexError"}
       /\ popped[1] \in {BAD_ADDR, BAD_RSSI, BAD_SNR}
          => result = Err(RecvErr([exc |-> "ValueError"], popped[1]))
       /\ popped[1] \in {THREE_FIELDS, FOUR_FIELDS}
          => result = Err(RecvErr([exc |-> "IndexError"], popped[1]))
       /\ popped[1] = N1 => is_ok(result)

C18_Witness ==
    /\ Returned("recv")
    /\ popped = <<THREE_FIELDS>>
    /\ recv_buf = <<N1>>
    /\ result = Err(RecvErr([exc |-> "IndexError"], THREE_FIELDS))

\* C19: in every reachable state, whatever calls of command, recv, setup,
\* send, reset and query were made, every entry of the queue is one
\* non-empty line that begins with +RCV= and holds no CR LF; no reply, no
\* +ERR= line and no empty fragment is ever queued
C19_QueueHoldsNotifications ==
    \A i \in 1..Len(recv_buf) :
        /\ recv_buf[i] # <<>>
        /\ startswith(recv_buf[i], RCV_MARK)
        /\ find(recv_buf[i], CRLF, 1) = 0
        /\ recv_buf[i] \notin Replies \cup {<<>>}

C19_Witness ==
    /\ Returned("query") /\ ReadOk
    /\ recv_buf = <<N1, N1>>
    /\ Len(ReplyLines(raw_read.val)) >= 2

\* C20: with ignore_errors false, a residue that begins with +ERR and gives
\* no decimal code (no "=", or no digits after it) makes command return a
\* failure value that is not a CommandError
C20_MalformedErrorReply ==
    /\ Returned("command") /\ ReadOk /\ ~frame.ignore_errors
    /\ Residue(raw_read.val) \in BadErrReplies
    => /\ result.tag = "Err"
       /\ result.val.exc # "CommandError"

====
